---- MODULE Spec2Model ----
(***************************************************************************)
(* Model of the poll / dispatch / submit loop of hubia-server:             *)
(* WorkflowClient in src/src/client.py.                                    *)
(*                                                                         *)
(* The loop is one asyncio coroutine.  Code between two awaits runs        *)
(* atomically, so the coroutine's position is one of                       *)
(*   main        main() of src/src/server.py not yet run                   *)
(*   aborted     main() returned without constructing the client           *)
(*   idle        client constructed, start() not yet entered               *)
(*   check       about to evaluate `while self.is_running`                 *)
(*   fetching    awaiting client.get(...)          (_polling_request)      *)
(*   sleeping    awaiting asyncio.sleep(...)       (_sleep)                *)
(*   processing  awaiting processor.process(task)  (_process_task)         *)
(*   posting     awaiting client.post(...)         (_send_response)        *)
(*   returned    start() has returned                                      *)
(* stop() and task cancellation are the environment's actions.             *)
(*                                                                         *)
(* Every handler of the loop is `except Exception`; the sleeps inside the  *)
(* handlers raise nothing but CancelledError, so _polling never raises an  *)
(* Exception and the handler of start() at lines 53-59 is never entered.   *)
(***************************************************************************)
EXTENDS Integers, Sequences, FiniteSets, TLC

VARIABLES
    pc,            \* position of the start() coroutine
    is_running,    \* WorkflowClient.is_running
    response,      \* <<r>>: the answer of the GET of this iteration, <<>> before it arrives
    task,          \* <<t>>: json_response['data'] of this iteration when it is a task
    sleeps,        \* durations of the sleeps begun in this iteration, in order
    sleepSite,     \* source line of the sleep in progress (0: none)
    invoked,       \* number of processor.process() calls made in this iteration
    procOutcome,   \* "none" | "raised" | "returned": how process() ended
    raised,        \* <<x>>: the exception process() raised, [class, message]
    error_detail,  \* <<e>>: the error_detail record built by _process_task
    payload,       \* <<p>>: the body of the POST in flight
    sendSite,      \* which _send_response call is active: "none" | "try" | "except"
    posts,         \* envelopes POSTed in this iteration, in order
    postOutcome,   \* <<o>>: how the last POST of this iteration ended
    inflight,      \* number of fetched tasks whose _process_task has not returned
    stopped,       \* stop() has been called since start() was entered
    cancelled,     \* a CancelledError has been delivered to the coroutine
    cancelledAt,   \* <<[pc, site]>>: the await the CancelledError was delivered at
    proc_result,   \* <<res>>: what processor.process() returned in this iteration
    server_key,    \* config.server_key: <<>> for None, <<s>> for the string s
    previous,      \* <<[status, sleeps]>>: the iteration before this one, <<>> if none
    content,       \* <<c>>: what the task being processed carries, when process() is
                   \* followed step by step; <<>> when only its outcome is
    requests,      \* requests process() has made to the inference service
    files,         \* temporary files that exist
    early_stop     \* stop() was called before start() was entered

vars == <<pc, is_running, response, task, sleeps, sleepSite, invoked, procOutcome, raised,
          error_detail, payload, sendSite, posts, postOutcome, inflight, stopped,
          cancelled, cancelledAt, proc_result, server_key, previous,
          content, requests, files, early_stop>>

----------------------------------------------------------------------------
(* Configuration and constants of the program                              *)

polling_interval_seconds == 5
retry_delay_seconds == 10

EMBEDDING == "embedding"
TRANSCRIBE == "transcribe"
DESCRIBE == "describe"
SUMMARIZE == "summarize"
PROMPT == "prompt"
KNOWLEDGE == "knowledge"

\* self.processors: action -> capability
processors ==
    [a \in {TRANSCRIBE, DESCRIBE, SUMMARIZE, EMBEDDING, PROMPT, KNOWLEDGE} |->
        CASE a = TRANSCRIBE -> "AudioProcessor"
          [] a = DESCRIBE   -> "ImageProcessor"
          [] a = SUMMARIZE  -> "DocumentProcessor"
          [] a = PROMPT     -> "PromptProcessor"
          [] OTHER          -> "EmbeddingProcessor"]

\* the code string of every error_detail
PROCESSING_ERROR == "PROCESSING_ERROR"

----------------------------------------------------------------------------
(* Values                                                                   *)

Absent == "<absent>"      \* a key the dict does not have
None == "<None>"          \* Python None in a string-valued position

\* dict.get(key, default)
Get(d, k, default) == IF k \in DOMAIN d THEN d[k] ELSE default

EmptyMap == [k \in {} |-> ""]

\* a task's 'metadata' entry: missing, null, or a string-keyed map
MetaAbsent == [kind |-> "absent", map |-> EmptyMap]
MetaNull == [kind |-> "null", map |-> EmptyMap]
MetaMap(m) == [kind |-> "map", map |-> m]

----------------------------------------------------------------------------
(* Inputs the environment can produce                                       *)

TaskIds == {"t1"}
Actions == {EMBEDDING, KNOWLEDGE, TRANSCRIBE, DESCRIBE, SUMMARIZE, PROMPT, "foo"}
Metadatas == {MetaAbsent, MetaNull, MetaMap(EmptyMap), MetaMap([lang |-> "pt"]),
              MetaMap([model |-> "requested"])}

\* the passthrough context of a task: every field missing, or every field set
NoContext == [server_id |-> Absent, conversation_id |-> Absent, client_id |-> Absent,
              channel_id |-> Absent, message_id |-> Absent]
FullContext == [server_id |-> "s1", conversation_id |-> "cv1", client_id |-> "cl1",
                channel_id |-> "ch1", message_id |-> "m1"]

\* A task dict as the API returns it; Absent marks a key the dict lacks.
Tasks ==
    { [task_id |-> i, action |-> a, metadata |-> m,
       server_id |-> c.server_id, conversation_id |-> c.conversation_id,
       client_id |-> c.client_id, channel_id |-> c.channel_id,
       message_id |-> c.message_id] :
        i \in TaskIds \cup {Absent}, a \in Actions \cup {Absent},
        m \in Metadatas, c \in {NoContext, FullContext} }

\* Answers of GET {api_url}/workflow/tasks.
\*   status 0        no HTTP response (connection error, timeout)
\*   err_message     the error body is JSON with a 'message' key (read on 500 only)
\*   json_ok         the 2xx body parses as JSON
\*   keys            the keys of the parsed body
\*   success, data   their values; data is "null" or "task"
ErrorStatuses == {0, 401, 404, 500, 503}
ErrorResponses ==
    { [status |-> s, err_message |-> m, json_ok |-> FALSE, keys |-> {},
       success |-> FALSE, data |-> "null", task |-> <<>>] :
        s \in ErrorStatuses, m \in BOOLEAN }
BodyKeys == {"success", "message", "data"}
OkResponses ==
    { [status |-> 200, err_message |-> FALSE, json_ok |-> j, keys |-> k,
       success |-> s, data |-> "null", task |-> <<>>] :
        j \in BOOLEAN, k \in SUBSET BodyKeys, s \in BOOLEAN }
    \cup
    { [status |-> 200, err_message |-> FALSE, json_ok |-> TRUE, keys |-> k,
       success |-> s, data |-> "task", task |-> <<t>>] :
        k \in {{"success", "data"}, BodyKeys}, s \in BOOLEAN, t \in Tasks }
PollResponses == ErrorResponses \cup OkResponses

\* Outcomes of POST {api_url}/workflow/tasks: a status, or 0 for a transport exception
PostOutcomes == {200, 401, 500, 0}

\* The exceptions a capability raises: ValueError from the validations and the
\* inference calls, KeyError from data['fileSize'] (audio_processor.py:51)
ExceptionClasses == {"ValueError", "KeyError"}
Raises ==
    { [class |-> "ValueError", message |-> "Texto muito longo"],
      [class |-> "ValueError", message |-> "Erro na comunicacao com Ollama"],
      [class |-> "KeyError", message |-> "'fileSize'"] }

Registered(action, capability) ==
    action \in DOMAIN processors /\ processors[action] = capability

\* What processor.process(task) can return, by capability.  The values come
\* from the inference services; a capability that does not return raises.
\* the cuts of the diagnostic preview, lines 232 and 234
PreviewStrLimit == 100
PreviewListLimit == 10

\* a text and a vector longer than what the preview shows
LongText == [i \in 1..(PreviewStrLimit + 1) |-> 97]
LongVector == [i \in 1..(PreviewListLimit + 1) |-> i]

Embeddings == {<<1>>, <<1, 2>>, LongVector}
Texts == {<<104, 105>>, LongText}

\* EmbeddingProcessor: the embedding is never empty (lines 71-78)
EmbeddingResults ==
    { [embedding |-> e, model |-> "nomic-embed-text", dimensions |-> Len(e),
       tokens |-> 1, success |-> TRUE] : e \in Embeddings }

\* AudioProcessor._transcribe_with_whisper
AudioResults ==
    { [transcription |-> x, confidence |-> 1, language |-> "pt-BR",
       duration |-> 1, success |-> TRUE] : x \in Texts }

\* ImageProcessor._describe_with_ollama
ImageResults ==
    { [description |-> x, confidence |-> 1, objects |-> <<>>, colors |-> <<>>,
       text |-> None, success |-> TRUE] : x \in Texts }

\* DocumentProcessor._summarize_with_ollama
DocumentResults ==
    { [summary |-> x, key_points |-> <<>>, document_type |-> "documento",
       confidence |-> 1, success |-> TRUE] : x \in Texts }

\* PromptProcessor never returns: _build_prompt reads prompt_data.clientPrompt
\* on a dict, and the AttributeError is re-raised as a ValueError (line 109)
PromptResults == {}

\* What a prompt capability that works returns: the bare result, and the
\* dict of _generate_response_with_ollama (lines 95-102)
PromptStubResults ==
    { [response |-> x] : x \in Texts } \cup
    { [response |-> x, confidence |-> 1, sources |-> <<>>, tokens |-> 1,
       model |-> "gemma", success |-> TRUE] : x \in Texts }

\* The capabilities whose process() suspends at an await, the request to the
\* inference service.  AudioProcessor runs Whisper without awaiting and
\* PromptProcessor raises before its request is made.
AwaitingCapabilities == {"EmbeddingProcessor", "ImageProcessor", "DocumentProcessor"}

ProcessResults(action) ==
    CASE Registered(action, "EmbeddingProcessor") -> EmbeddingResults
      [] Registered(action, "AudioProcessor") -> AudioResults
      [] Registered(action, "ImageProcessor") -> ImageResults
      [] Registered(action, "DocumentProcessor") -> DocumentResults
      [] Registered(action, "PromptProcessor") -> PromptResults
      [] OTHER -> {}

----------------------------------------------------------------------------
\* _polling_request returning None for a 500 before its sleep
PollingRequestEarlyReturn(r) ==
    IF r.status = 200 THEN "response"
    ELSE IF r.status \in {401, 500} THEN "none"
    ELSE "sleep116"

\* _polling_request treating 401 like the other statuses
PollingRequestSleepsOn401(r) ==
    IF r.status = 200 THEN "response"
    ELSE IF r.status = 500 /\ ~r.err_message THEN "raise"
    ELSE "sleep116"

(* WorkflowClient._polling_request, after the GET has been answered:        *)
(*   "response"  the response is returned (2xx)                             *)
(*   "none"      None is returned with no sleep (401)                       *)
(*   "sleep116"  the handler sleeps at line 116, then returns None          *)
(*   "raise"     the handler itself raises (500 whose body has no message)  *)
_polling_request(r) ==
    IF r.status = 200 THEN "response"
    ELSE IF r.status # 0
         THEN IF r.status = 500
              THEN IF r.err_message THEN "sleep116" ELSE "raise"
              ELSE IF r.status = 404 THEN "sleep116"
              ELSE IF r.status = 401 THEN "none"
              ELSE "sleep116"
         ELSE "sleep116"

\* a lookup that falls back to a capability instead of returning None
LookupWithDefault(action) ==
    IF action \in DOMAIN processors THEN <<processors[action]>> ELSE <<"PromptProcessor">>

\* self.processors.get(task['action']): <<capability>> or <<>> for None
Lookup(action) ==
    IF action \in DOMAIN processors THEN <<processors[action]>> ELSE <<>>

(* WorkflowClient._process_task up to its first await:                      *)
(*   "raise"    line 148 raises KeyError and so does the handler (line 165) *)
(*   "unknown"  no processor: ValueError, handled at line 164               *)
(*   "process"  processor.process(task) is awaited                          *)
_process_task(t) ==
    IF t.task_id = Absent THEN "raise"
    ELSE IF Lookup(t.action) = <<>> THEN "unknown"
    ELSE "process"

\* a body read with json_response.get('data'): a missing key counts as no work
ProcessPollingResponseGetData(r) ==
    IF ~r.json_ok THEN "sleep143"
    ELSE IF "success" \notin r.keys THEN "sleep143"
    ELSE IF r.success = FALSE
         THEN IF "message" \in r.keys THEN "sleep127" ELSE "sleep143"
    ELSE IF "data" \notin r.keys THEN "sleep132"
    ELSE IF r.data = "null" THEN "sleep132"
    ELSE IF r.task[1].action = Absent THEN "sleep143"
    ELSE IF _process_task(r.task[1]) = "raise" THEN "sleep143"
    ELSE _process_task(r.task[1])

(* WorkflowClient._process_polling_response up to its first await.          *)
(* "sleepNNN" is the sleep at line NNN; every exception ends at line 143.   *)
_process_polling_response(r) ==
    IF ~r.json_ok THEN "sleep143"
    ELSE IF "success" \notin r.keys THEN "sleep143"
    ELSE IF r.success = FALSE
         THEN IF "message" \in r.keys THEN "sleep127" ELSE "sleep143"
    ELSE IF "data" \notin r.keys THEN "sleep143"
    ELSE IF r.data = "null" THEN "sleep132"
    ELSE IF r.task[1].action = Absent THEN "sleep143"
    ELSE IF _process_task(r.task[1]) = "raise" THEN "sleep143"
    ELSE _process_task(r.task[1])

(* WorkflowClient._polling up to its first await after the GET              *)
_polling(r) ==
    IF _polling_request(r) = "raise" THEN "sleep81"
    ELSE IF _polling_request(r) = "response" THEN _process_polling_response(r)
    ELSE _polling_request(r)

SleepSites == {"sleep81", "sleep116", "sleep127", "sleep132", "sleep143"}

\* the line of a sleep site
SiteLine(site) ==
    CASE site = "sleep81" -> 81 [] site = "sleep116" -> 116 [] site = "sleep127" -> 127
      [] site = "sleep132" -> 132 [] site = "sleep143" -> 143

\* every sleep taking retry_delay_seconds
SleepSecondsAlwaysRetry(site) == retry_delay_seconds

\* the argument of self._sleep(...) at each site
SleepSeconds(site) ==
    IF site = "sleep132" THEN polling_interval_seconds ELSE retry_delay_seconds

----------------------------------------------------------------------------
(* WorkflowClient._process_task, the handler at lines 164-170               *)

\* a handler written `except ValueError`
CaughtOnlyValueError(class) == class = "ValueError"

\* a handler written `except BaseException`
CaughtEverything(class) == TRUE

\* `except Exception as e`, line 164: the classes the handler catches
CaughtAtDispatch(class) == class \in ExceptionClasses

\* str(e) of the ValueError raised at line 155
NotFoundMessage(action) == "Processador nao encontrado para tipo: " \o action

\* an error_detail that drops str(e)
ErrorDetailWithoutMessage(message, action) ==
    [code |-> PROCESSING_ERROR, message |-> "Erro",
     details |-> "Erro no processamento de " \o action]

\* error_detail, line 168
ErrorDetail(message, action) ==
    [code |-> PROCESSING_ERROR, message |-> message,
     details |-> "Erro no processamento de " \o action]

----------------------------------------------------------------------------
(* WorkflowClient._send_response, lines 174-239: building the payload       *)

\* payload values: None, a str, or a list
NoneValue == [t |-> "None", v |-> <<>>]
StrValue(x) == [t |-> "str", v |-> x]
ListValue(x) == [t |-> "list", v |-> x]

\* task_data.get(key)
CtxGet(v) == IF v = Absent THEN None ELSE v

\* `task_data.get('metadata') or {}`: a fresh {} for a missing or null entry
PayloadMetadataOrEmpty(t) ==
    IF t.metadata.kind \in {"absent", "null"} THEN MetaMap(EmptyMap) ELSE t.metadata

\* task_data.get('metadata', {}): a fresh {} when the key is missing, else
\* the task's own value (None, or the very dict object of the task)
PayloadMetadata(t) ==
    IF t.metadata.kind = "absent" THEN MetaMap(EmptyMap) ELSE t.metadata

\* dict.update(extras)
Update(m, extras) ==
    [k \in DOMAIN m \cup DOMAIN extras |->
        IF k \in DOMAIN extras THEN extras[k] ELSE m[k]]

\* an update() that forgets the token count
EmbeddingExtrasWithoutTokens(result) ==
    [dimensions |-> Get(result, "dimensions", 0),
     model |-> Get(result, "model", "")]

\* the dict passed to payload['metadata'].update(...), lines 193-197 and 219-223
EmbeddingExtras(result) ==
    [dimensions |-> Get(result, "dimensions", 0),
     model |-> Get(result, "model", ""),
     tokens |-> Get(result, "tokens", 0)]

\* a payload that leaves the context fields out
BasePayloadWithoutContext(task_id, task_type, t) ==
    [task_id |-> task_id, type |-> task_type,
     server_id |-> None, conversation_id |-> None, client_id |-> None,
     channel_id |-> None, message_id |-> None,
     metadata |-> PayloadMetadata(t)]

\* payload, lines 176-185
BasePayload(task_id, task_type, t) ==
    [task_id |-> task_id, type |-> task_type,
     server_id |-> CtxGet(t.server_id),
     conversation_id |-> CtxGet(t.conversation_id),
     client_id |-> CtxGet(t.client_id),
     channel_id |-> CtxGet(t.channel_id),
     message_id |-> CtxGet(t.message_id),
     metadata |-> PayloadMetadata(t)]

\* adds payload['success'] and payload['data']
WithResult(p, success, data) ==
    [k \in DOMAIN p \cup {"success", "data"} |->
        IF k = "success" THEN success ELSE IF k = "data" THEN data ELSE p[k]]

\* the describe branch reading the key of the summarize branch
PrimaryValueDescribeReadsSummary(task_type, result) ==
    CASE task_type \in {EMBEDDING, KNOWLEDGE} -> ListValue(Get(result, "embedding", <<>>))
      [] task_type = TRANSCRIBE -> StrValue(Get(result, "transcription", <<>>))
      [] task_type = DESCRIBE -> StrValue(Get(result, "summary", <<>>))
      [] task_type = SUMMARIZE -> StrValue(Get(result, "summary", <<>>))
      [] task_type = PROMPT -> StrValue(Get(result, "response", <<>>))

\* payload['data'] of the success branches, lines 189-217
PrimaryValue(task_type, result) ==
    CASE task_type \in {EMBEDDING, KNOWLEDGE} -> ListValue(Get(result, "embedding", <<>>))
      [] task_type = TRANSCRIBE -> StrValue(Get(result, "transcription", <<>>))
      [] task_type = DESCRIBE -> StrValue(Get(result, "description", <<>>))
      [] task_type = SUMMARIZE -> StrValue(Get(result, "summary", <<>>))
      [] task_type = PROMPT -> StrValue(Get(result, "response", <<>>))

\* `if success and result`: result is <<>> for None, <<r>> for the dict r
Truthy(result) == result # <<>> /\ DOMAIN result[1] # {}

\* payload['data'] as the preview shows it, lines 230-234
Cut(data) ==
    IF data.t = "str" /\ data.v # <<>>
    THEN StrValue(SubSeq(data.v, 1, IF Len(data.v) < PreviewStrLimit
                                    THEN Len(data.v) ELSE PreviewStrLimit))
    ELSE IF data.t = "list" /\ Len(data.v) > PreviewListLimit
    THEN ListValue(SubSeq(data.v, 1, PreviewListLimit))
    ELSE data

\* a preview made on the payload itself: result_to_log = payload
PreviewStepInPlace(p) ==
    LET shown == IF "data" \in DOMAIN p THEN [p EXCEPT !.data = Cut(p.data)] ELSE p
    IN [payload |-> shown, result_to_log |-> shown]

(* Lines 229-235: result_to_log = payload.copy() is a new dict with the     *)
(* same entries; the cut value is stored under 'data' of the copy only, and *)
(* slicing makes a new string or list.                                      *)
PreviewStep(p) ==
    LET shown == IF "data" \in DOMAIN p THEN [p EXCEPT !.data = Cut(p.data)] ELSE p
    IN [payload |-> p, result_to_log |-> shown]

(* The first try block of _send_response.  The value is                     *)
(*   raised   an exception was caught at line 237 (return, no POST)         *)
(*   payload  the body to POST                                              *)
(*   task     the task dict afterwards: update() writes into the task's own *)
(*            metadata dict when the payload aliases it                     *)
PreparePayload(task_id, task_type, success, result, t) ==
    LET base == BasePayload(task_id, task_type, t) IN
    IF success /\ Truthy(result)
    THEN IF task_type \in {EMBEDDING, KNOWLEDGE}
         THEN IF base.metadata.kind # "map"
              THEN [raised |-> TRUE, payload |-> base, task |-> t]
              ELSE LET md == MetaMap(Update(base.metadata.map, EmbeddingExtras(result[1])))
                       p == [base EXCEPT !.metadata = md]
                   IN [raised |-> FALSE,
                       payload |-> WithResult(p, TRUE, PrimaryValue(task_type, result[1])),
                       task |-> IF t.metadata.kind = "map"
                                THEN [t EXCEPT !.metadata = md] ELSE t]
         ELSE IF task_type \in {TRANSCRIBE, DESCRIBE, SUMMARIZE, PROMPT}
              THEN [raised |-> FALSE,
                    payload |-> WithResult(base, TRUE, PrimaryValue(task_type, result[1])),
                    task |-> t]
              ELSE [raised |-> FALSE, payload |-> base, task |-> t]
    ELSE [raised |-> FALSE, payload |-> WithResult(base, FALSE, NoneValue), task |-> t]

\* lines 174-239: the payload is prepared, then previewed
BuildPayload(task_id, task_type, success, result, t) ==
    LET built == PreparePayload(task_id, task_type, success, result, t) IN
    IF built.raised THEN built
    ELSE [built EXCEPT !.payload = PreviewStep(built.payload).payload]

\* a second try block that lets the transport exception of the POST through
SendResponseRaisesOnTransportError(outcome) == outcome = 0

(* The second try block of _send_response, lines 241-267: whether an        *)
(* exception leaves _send_response for the given outcome of the POST.       *)
(* Every status returns; `except Exception` swallows the rest.              *)
SendResponseRaises(outcome) == FALSE

----------------------------------------------------------------------------
(* Startup: main() of src/src/server.py                                     *)

\* characters str.strip() removes: space, tab, line feed
Whitespace == {32, 9, 10}

\* s without its leading whitespace
RECURSIVE LStrip(_)
LStrip(s) ==
    IF s # <<>> /\ Head(s) \in Whitespace THEN LStrip(Tail(s)) ELSE s

\* s without its trailing whitespace
RECURSIVE RStrip(_)
RStrip(s) ==
    IF s # <<>> /\ s[Len(s)] \in Whitespace
    THEN RStrip(SubSeq(s, 1, Len(s) - 1))
    ELSE s

\* str.strip()
strip(s) == RStrip(LStrip(s))

\* a credential the server accepts the process with
ValidKey == <<107>>

\* values of os.getenv("SERVER_KEY"): None, "", " ", "\t ", "k", " k"
ServerKeys == {<<>>, <<<<>>>>, <<<<32>>>>, <<<<9, 32>>>>, <<ValidKey>>, <<<<32, 107>>>>}

\* the test without strip(): `if not config.server_key`
KeyRejectedWithoutStrip(k) == k = <<>> \/ k[1] = <<>>

\* `if not config.server_key or config.server_key.strip() == ""`, line 30
KeyRejected(k) == k = <<>> \/ k[1] = <<>> \/ strip(k[1]) = <<>>

----------------------------------------------------------------------------
(* The state machine                                                        *)

Init ==
    /\ pc = "idle"
    /\ is_running = FALSE
    /\ response = <<>>
    /\ task = <<>>
    /\ sleeps = <<>>
    /\ sleepSite = 0
    /\ invoked = 0
    /\ procOutcome = "none"
    /\ raised = <<>>
    /\ error_detail = <<>>
    /\ payload = <<>>
    /\ sendSite = "none"
    /\ posts = <<>>
    /\ postOutcome = <<>>
    /\ inflight = 0
    /\ stopped = FALSE
    /\ cancelled = FALSE
    /\ cancelledAt = <<>>
    /\ proc_result = <<>>
    /\ server_key = <<ValidKey>>
    /\ previous = <<>>
    /\ content = <<>>
    /\ requests = 0
    /\ files = {}
    /\ early_stop = FALSE

\* a start() that leaves the flag alone when stop() has been called
RunningOnEntryUnlessStopped == ~stopped

\* `self.is_running = True`, line 41
RunningOnEntry == TRUE

\* start(), lines 41-42
Start ==
    /\ pc = "idle"
    /\ is_running' = RunningOnEntry
    /\ stopped' = FALSE
    /\ pc' = "check"
    /\ UNCHANGED <<response, task, sleeps, sleepSite, invoked, procOutcome, raised,
                   error_detail, payload, sendSite, posts, postOutcome, inflight,
                   cancelled,
                   cancelledAt, proc_result, server_key, previous,
                   content, requests, files,
                   early_stop>>

\* a loop that gives up once the server has answered 401
LoopConditionHaltsOn401 ==
    is_running /\ ~(response # <<>> /\ response[1].status = 401)

\* `while True`
LoopConditionAlways == TRUE

\* `while self.is_running`, line 47
LoopCondition == is_running

\* `while self.is_running` holds: _polling -> _polling_request issues the GET
IssueFetch ==
    /\ pc = "check"
    /\ LoopCondition
    /\ pc' = "fetching"
    /\ response' = <<>>
    /\ task' = <<>>
    /\ sleeps' = <<>>
    /\ sleepSite' = 0
    /\ invoked' = 0
    /\ procOutcome' = "none"
    /\ raised' = <<>>
    /\ error_detail' = <<>>
    /\ payload' = <<>>
    /\ sendSite' = "none"
    /\ posts' = <<>>
    /\ postOutcome' = <<>>
    /\ proc_result' = <<>>
    /\ previous' = IF response = <<>> THEN <<>>
                   ELSE <<[status |-> response[1].status, sleeps |-> sleeps]>>
    /\ UNCHANGED <<is_running, inflight, stopped, cancelled,
                   cancelledAt, server_key, content, requests, files,
                   early_stop>>

\* `while self.is_running` fails: the finally clause, start() returns
ExitLoop ==
    /\ pc = "check"
    /\ ~LoopCondition
    /\ pc' = "returned"
    /\ is_running' = FALSE
    /\ UNCHANGED <<response, task, sleeps, sleepSite, invoked, procOutcome, raised,
                   error_detail, payload, sendSite, posts, postOutcome, inflight,
                   stopped, cancelled,
                   cancelledAt, proc_result, server_key, previous,
                   content, requests, files,
                   early_stop>>

\* task_data = json_response['data'], line 135
FetchedTask(r) ==
    IF /\ _polling_request(r) = "response"
       /\ r.json_ok /\ "success" \in r.keys /\ r.success
       /\ "data" \in r.keys /\ r.data = "task"
    THEN r.task ELSE <<>>

\* _process_task started in the background instead of awaited
DispatchWithoutAwait == "check"

\* where the loop is once `await self._process_task(task_data)` (line 139) has
\* called processor.process: suspended in it
DispatchPc == "processing"

\* the GET is answered and the code reaches one of its sleeps
PollSleep ==
    /\ pc = "fetching"
    /\ \E r \in PollResponses :
        /\ _polling(r) \in SleepSites
        /\ response' = <<r>>
        /\ task' = FetchedTask(r)
        /\ sleeps' = Append(sleeps, SleepSeconds(_polling(r)))
        /\ sleepSite' = SiteLine(_polling(r))
    /\ pc' = "sleeping"
    /\ UNCHANGED <<is_running, invoked, procOutcome, raised, error_detail, payload,
                   sendSite, posts, postOutcome, inflight, stopped, cancelled,
                   cancelledAt, proc_result, server_key, previous,
                   content, requests, files,
                   early_stop>>

\* the GET is answered 401: None is returned and _polling returns at line 73
PollUnauthorized ==
    /\ pc = "fetching"
    /\ \E r \in PollResponses :
        /\ _polling(r) = "none"
        /\ response' = <<r>>
        /\ task' = FetchedTask(r)
    /\ pc' = "check"
    /\ UNCHANGED <<is_running, sleeps, sleepSite, invoked, procOutcome, raised,
                   error_detail, payload, sendSite, posts, postOutcome, inflight,
                   stopped, cancelled,
                   cancelledAt, proc_result, server_key, previous,
                   content, requests, files,
                   early_stop>>

\* the GET returns a task with a registered action: processor.process(task)
PollDispatch ==
    /\ pc = "fetching"
    /\ \E r \in PollResponses :
        /\ _polling(r) = "process"
        /\ response' = <<r>>
        /\ task' = FetchedTask(r)
    /\ invoked' = invoked + 1
    /\ inflight' = inflight + 1
    /\ pc' = DispatchPc
    /\ UNCHANGED <<is_running, sleeps, sleepSite, procOutcome, raised, error_detail,
                   payload, sendSite, posts, postOutcome, stopped, cancelled,
                   cancelledAt, proc_result, server_key, previous,
                   content, requests, files,
                   early_stop>>

(* _process_task's handler, lines 164-170, entered with the message str(e): *)
(* error_detail is built and _send_response(.., False, None, error_detail,  *)
(* task) runs up to its POST.  `entered` tells whether the task was already *)
(* counted in flight.                                                       *)
HandleAtDispatch(message, entered) ==
    LET t == task'[1]
        e == ErrorDetail(message, t.action)
        b == BuildPayload(t.task_id, t.action, FALSE, <<>>, t)
    IN /\ error_detail' = <<e>>
       /\ IF b.raised
          THEN /\ pc' = "check"
               /\ sendSite' = "none"
               /\ inflight' = IF entered THEN inflight - 1 ELSE inflight
               /\ UNCHANGED <<payload, posts>>
          ELSE /\ pc' = "posting"
               /\ payload' = <<b.payload>>
               /\ posts' = Append(posts, b.payload)
               /\ sendSite' = "except"
               /\ inflight' = IF entered THEN inflight ELSE inflight + 1

\* the GET returns a task whose action has no processor: lines 153-155, 164-170
PollUnknownAction ==
    /\ pc = "fetching"
    /\ \E r \in PollResponses :
        /\ _polling(r) = "unknown"
        /\ response' = <<r>>
        /\ task' = FetchedTask(r)
        /\ HandleAtDispatch(NotFoundMessage(r.task[1].action), FALSE)
    /\ UNCHANGED <<is_running, sleeps, sleepSite, invoked, procOutcome, raised,
                   postOutcome, stopped, cancelled,
                   cancelledAt, proc_result, server_key, previous,
                   content, requests, files,
                   early_stop>>

\* _sleep returns; every sleep site is followed by a return to the loop
SleepDone ==
    /\ pc = "sleeping"
    /\ pc' = "check"
    /\ sleepSite' = 0
    /\ UNCHANGED <<is_running, response, task, sleeps, invoked, procOutcome, raised,
                   error_detail, payload, sendSite, posts, postOutcome, inflight,
                   stopped, cancelled,
                   cancelledAt, proc_result, server_key, previous,
                   content, requests, files,
                   early_stop>>

(* processor.process(task) raises.  An exception the handler at line 164    *)
(* catches is reported; any other leaves _process_task and is caught at     *)
(* line 141, which sleeps at line 143.                                      *)
ProcessRaises ==
    /\ pc = "processing"
    /\ \E x \in Raises :
        /\ raised' = <<x>>
        /\ task' = task
        /\ IF CaughtAtDispatch(x.class)
           THEN /\ HandleAtDispatch(x.message, TRUE)
                /\ UNCHANGED <<sleeps, sleepSite>>
           ELSE /\ pc' = "sleeping"
                /\ sleeps' = Append(sleeps, SleepSeconds("sleep143"))
                /\ sleepSite' = SiteLine("sleep143")
                /\ inflight' = inflight - 1
                /\ UNCHANGED <<error_detail, payload, posts, sendSite>>
    /\ procOutcome' = "raised"
    /\ UNCHANGED <<is_running, response, invoked, postOutcome, stopped, cancelled,
                   cancelledAt, proc_result, server_key, previous,
                   content, requests, files,
                   early_stop>>

\* lines 158-162 once process() has returned res: _send_response up to its POST
Returns(res) ==
    LET t == task[1]
        b == BuildPayload(t.task_id, t.action, TRUE, <<res>>, t)
    IN /\ task' = <<b.task>>
       /\ proc_result' = <<res>>
       /\ IF b.raised
          THEN /\ pc' = "check"
               /\ inflight' = inflight - 1
               /\ UNCHANGED <<payload, posts, sendSite>>
          ELSE /\ pc' = "posting"
               /\ payload' = <<b.payload>>
               /\ posts' = Append(posts, b.payload)
               /\ sendSite' = "try"
               /\ UNCHANGED inflight

\* processor.process(task) returns its result: lines 158-162
ProcessReturns ==
    /\ pc = "processing"
    /\ \E res \in ProcessResults(task[1].action) : Returns(res)
    /\ procOutcome' = "returned"
    /\ UNCHANGED <<is_running, response, sleeps, sleepSite, invoked, raised,
                   error_detail, postOutcome, stopped, cancelled,
                   cancelledAt, server_key, previous,
                   content, requests, files,
                   early_stop>>

(* The same step with a test double registered for the prompt action in     *)
(* place of PromptProcessor: it returns a result of the documented shape.   *)
StubReturns ==
    /\ pc = "processing"
    /\ task[1].action = PROMPT
    /\ \E res \in PromptStubResults : Returns(res)
    /\ procOutcome' = "returned"
    /\ UNCHANGED <<is_running, response, sleeps, sleepSite, invoked, raised,
                   error_detail, postOutcome, stopped, cancelled,
                   cancelledAt, server_key, previous,
                   content, requests, files,
                   early_stop>>

(* The POST ends.  _send_response returns to _process_task; had it raised,  *)
(* the call at line 161 would be handled at line 164 (a second envelope),   *)
(* the call at line 170 would reach line 141 (sleep at line 143).           *)
PostDone ==
    /\ pc = "posting"
    /\ \E o \in PostOutcomes :
        /\ postOutcome' = <<o>>
        /\ task' = task
        /\ IF ~SendResponseRaises(o)
           THEN /\ pc' = "check"
                /\ sendSite' = "none"
                /\ inflight' = inflight - 1
                /\ UNCHANGED <<error_detail, payload, posts, sleeps, sleepSite>>
           ELSE IF sendSite = "try"
           THEN /\ HandleAtDispatch("Erro no envio", TRUE)
                /\ UNCHANGED <<sleeps, sleepSite>>
           ELSE /\ pc' = "sleeping"
                /\ sleeps' = Append(sleeps, SleepSeconds("sleep143"))
                /\ sleepSite' = SiteLine("sleep143")
                /\ sendSite' = "none"
                /\ inflight' = inflight - 1
                /\ UNCHANGED <<error_detail, payload, posts>>
    /\ UNCHANGED <<is_running, response, invoked, procOutcome, raised, stopped, cancelled,
                   cancelledAt, proc_result, server_key, previous,
                   content, requests, files,
                   early_stop>>

\* a stop() that also abandons what the loop is waiting for
StopAbandons(p) ==
    IF p \in {"fetching", "sleeping", "processing", "posting"} THEN "check" ELSE p

\* where the coroutine is after stop(): lines 273-276 write the flag and
\* nothing else, the await in progress is not touched
StopPc(p) == p

\* stop(), lines 273-276, called from outside the loop
Stop ==
    /\ pc \notin {"main", "aborted"}
    /\ pc' = StopPc(pc)
    /\ is_running' = FALSE
    /\ stopped' = TRUE
    /\ early_stop' = (early_stop \/ pc = "idle")
    /\ UNCHANGED <<response, task, sleeps, sleepSite, invoked, procOutcome, raised,
                   error_detail, payload, sendSite, posts, postOutcome, inflight,
                   cancelled,
                   cancelledAt, proc_result, server_key, previous,
                   content, requests, files>>

\* CancelledError caught by the `except Exception` around the sleep
SleepCancelSwallowed(site) == IF site = 81 THEN "start" ELSE "handler"

(* Where a CancelledError raised by the sleep at line `site` is caught.     *)
(* CancelledError is a BaseException: the `except Exception` at lines 78    *)
(* and 141 let it pass, line 82 re-raises it, and start() catches it at     *)
(* line 50.                                                                 *)
SleepCancelLanding(site) == "start"

(* A CancelledError is delivered at the await the coroutine is suspended    *)
(* in (a KeyboardInterrupt reaches a coroutine run by asyncio.run as this   *)
(* cancellation).  start() catches it at line 50, breaks, and the finally   *)
(* clause runs.  A process() that never suspends cannot receive it.  Had    *)
(* the handler of _process_task caught it, the failure envelope would be    *)
(* sent; had a handler around a sleep caught it, the sleep of line 81       *)
(* would begin.                                                             *)
Cancel ==
    /\ pc \in {"fetching", "sleeping", "processing", "posting"}
    /\ pc = "processing" => processors[task[1].action] \in AwaitingCapabilities
    /\ cancelled' = TRUE
    /\ cancelledAt' = <<[pc |-> pc, site |-> sleepSite]>>
    /\ IF pc = "processing" /\ CaughtAtDispatch("CancelledError")
       THEN /\ task' = task
            /\ HandleAtDispatch("", TRUE)
            /\ UNCHANGED <<is_running, sleeps, sleepSite>>
       ELSE IF pc = "sleeping" /\ SleepCancelLanding(sleepSite) # "start"
       THEN /\ pc' = "sleeping"
            /\ sleeps' = Append(sleeps, SleepSeconds("sleep81"))
            /\ sleepSite' = SiteLine("sleep81")
            /\ UNCHANGED <<is_running, sendSite, inflight, task, error_detail,
                           payload, posts>>
       ELSE /\ pc' = "returned"
            /\ is_running' = FALSE
            /\ sleepSite' = 0
            /\ sendSite' = "none"
            /\ inflight' = IF pc \in {"processing", "posting"}
                           THEN inflight - 1 ELSE inflight
            /\ UNCHANGED <<sleeps, task, error_detail, payload, posts>>
    /\ UNCHANGED <<response, invoked, procOutcome, raised, postOutcome, stopped,
                   proc_result, server_key, previous, content, requests, files,
                   early_stop>>

(* main(), lines 19-43: the credential is tested before anything else; a    *)
(* rejected credential returns at line 34, an accepted one constructs the   *)
(* WorkflowClient (line 41) whose start() is then awaited (line 43).        *)
MainStartup ==
    /\ pc = "main"
    /\ pc' = IF KeyRejected(server_key) THEN "aborted" ELSE "idle"
    /\ UNCHANGED <<is_running, response, task, sleeps, sleepSite, invoked, procOutcome,
                   raised, error_detail, payload, sendSite, posts, postOutcome,
                   inflight, stopped, cancelled, cancelledAt, proc_result, server_key, previous,
                   content, requests, files,
                   early_stop>>

\* the steps of the loop coroutine
LoopStep ==
    \/ Start
    \/ IssueFetch
    \/ ExitLoop
    \/ PollSleep
    \/ PollUnauthorized
    \/ PollDispatch
    \/ PollUnknownAction
    \/ SleepDone
    \/ ProcessRaises
    \/ ProcessReturns
    \/ PostDone

Next ==
    \/ Start
    \/ IssueFetch
    \/ ExitLoop
    \/ PollSleep
    \/ PollUnauthorized
    \/ PollDispatch
    \/ PollUnknownAction
    \/ SleepDone
    \/ ProcessRaises
    \/ ProcessReturns
    \/ PostDone
    \/ Stop
    \/ Cancel

Spec == Init /\ [][Next]_vars

\* the process before main() runs, with any value of the SERVER_KEY variable
MainInit ==
    /\ pc = "main"
    /\ is_running = FALSE
    /\ response = <<>>
    /\ task = <<>>
    /\ sleeps = <<>>
    /\ sleepSite = 0
    /\ invoked = 0
    /\ procOutcome = "none"
    /\ raised = <<>>
    /\ error_detail = <<>>
    /\ payload = <<>>
    /\ sendSite = "none"
    /\ posts = <<>>
    /\ postOutcome = <<>>
    /\ inflight = 0
    /\ stopped = FALSE
    /\ cancelled = FALSE
    /\ cancelledAt = <<>>
    /\ proc_result = <<>>
    /\ server_key \in ServerKeys
    /\ previous = <<>>
    /\ content = <<>>
    /\ requests = 0
    /\ files = {}
    /\ early_stop = FALSE

MainNext ==
    \/ MainStartup
    \/ Start
    \/ IssueFetch
    \/ ExitLoop
    \/ PollSleep
    \/ PollUnauthorized
    \/ PollDispatch
    \/ PollUnknownAction
    \/ SleepDone
    \/ ProcessRaises
    \/ ProcessReturns
    \/ PostDone
    \/ Stop
    \/ Cancel

\* the whole process: main() and the loop it starts
MainSpec == MainInit /\ [][MainNext]_vars

StubNext ==
    \/ Start
    \/ IssueFetch
    \/ ExitLoop
    \/ PollSleep
    \/ PollUnauthorized
    \/ PollDispatch
    \/ PollUnknownAction
    \/ SleepDone
    \/ ProcessRaises
    \/ ProcessReturns
    \/ StubReturns
    \/ PostDone
    \/ Stop
    \/ Cancel

\* the loop with a working capability registered for the prompt action
StubSpec == Init /\ [][StubNext]_vars

----------------------------------------------------------------------------
(* The capabilities, step by step: process() of EmbeddingProcessor,         *)
(* PromptProcessor and AudioProcessor on a task the loop has dispatched.    *)
(* pc = "inferring" is process() suspended in its request to the inference  *)
(* service.                                                                 *)

\* Config.max_text_length
max_text_length == 10000

RECURSIVE SumSeq(_)
SumSeq(q) == IF q = <<>> THEN 0 ELSE Head(q) + SumSeq(Tail(q))

\* lengths of the text of a task, around the limit
TextLengths == {max_text_length - 1, max_text_length, max_text_length + 1}

(* What a text task carries: whether it has a 'content' key (or the         *)
(* alternative key), the length of that text and the lengths of the         *)
(* contents of its context items.                                           *)
TextContents ==
    { [kind |-> "text", present |-> TRUE, len |-> n, context |-> x] :
        n \in TextLengths, x \in {<<>>, <<1>>} }
    \cup
    { [kind |-> "text", present |-> FALSE, len |-> 0, context |-> <<>>] }

(* What an audio task carries: whether its fields pass the validations of   *)
(* lines 48-54, and the extension of the temporary file made from it.       *)
AudioContents ==
    { [kind |-> "audio", valid |-> v, ext |-> e] :
        v \in BOOLEAN, e \in {"mp3", "wav"} }

ContentsOf(action) ==
    IF Registered(action, "AudioProcessor") THEN AudioContents ELSE TextContents

\* a length test that also rejects a text of exactly the limit
EmbeddingProcessRejectsAtLimit(c) ==
    IF ~c.present THEN "missing"
    ELSE IF c.len >= max_text_length THEN "too_long"
    ELSE "request"

\* EmbeddingProcessor.process up to its request, lines 17-37
EmbeddingProcess(c) ==
    IF ~c.present THEN "missing"
    ELSE IF c.len > max_text_length THEN "too_long"
    ELSE "request"

(* PromptProcessor._build_prompt, lines 111-154: prompt_data is a dict and  *)
(* line 115 reads prompt_data.clientPrompt, an AttributeError.              *)
_build_prompt == "raise"

(* PromptProcessor._generate_response_with_ollama up to its request, lines  *)
(* 52-75: the prompt is built first; what it raises is re-raised as a       *)
(* ValueError at line 109.                                                  *)
_generate_response_with_ollama ==
    IF _build_prompt = "raise" THEN "build_failed" ELSE "request"

\* PromptProcessor.process up to its request, lines 17-44
PromptProcess(c) ==
    IF ~c.present THEN "missing"
    ELSE IF c.len + SumSeq(c.context) > max_text_length THEN "too_long"
    ELSE _generate_response_with_ollama

\* process() of the capability of `action`, up to its first request
CapabilityProcess(action, c) ==
    IF Registered(action, "PromptProcessor") THEN PromptProcess(c)
    ELSE EmbeddingProcess(c)

\* str(e) of the ValueError process() raises before its request
CapabilityMessage(action, outcome) ==
    CASE outcome = "missing" ->
            IF Registered(action, "PromptProcessor")
            THEN "Campo 'content' ou 'message' nao encontrado nos dados"
            ELSE "Campo 'content' ou 'text' nao encontrado nos dados"
      [] outcome = "too_long" ->
            IF Registered(action, "PromptProcessor")
            THEN "Prompt muito longo" ELSE "Texto muito longo"
      [] outcome = "build_failed" -> "Erro na geracao de resposta"

\* the results a request to the inference service can lead to
InferenceResults(action) ==
    IF Registered(action, "PromptProcessor") THEN PromptStubResults
    ELSE ProcessResults(action)

\* how MP3 conversion ends: a separate WAV file, or the input path given back
ConversionOutcomes == {"wav", "mp3"}

(* AudioProcessor._transcribe_with_whisper, lines 228-299, on the temporary *)
(* file "input" with extension ext.  conv is how the conversion ends,       *)
(* whisper whether the transcription yields a text or raises.  The value    *)
(* tells which files the call created and which its finally clause removed. *)
_transcribe_with_whisper(ext, conv, whisper) ==
    LET wav_file_path == IF ext = "mp3"
                         THEN (IF conv = "wav" THEN "converted.wav" ELSE "input")
                         ELSE None
        \* lines 247-248: audio_file_path = wav_file_path
        audio_file_path == IF wav_file_path \notin {None, "input"}
                           THEN wav_file_path ELSE "input"
        created == IF ext = "mp3" /\ conv = "wav" THEN {"converted.wav"} ELSE {}
        \* line 298
        cleanup == wav_file_path # None /\ wav_file_path # audio_file_path
    IN [created |-> created,
        removed |-> IF cleanup THEN {wav_file_path} ELSE {},
        raised |-> whisper = "raises"]

\* a dispatched task of the text capabilities is validated: lines 17-37 / 17-44
CapValidate ==
    /\ pc = "processing"
    /\ content # <<>> /\ content[1].kind = "text"
    /\ LET o == CapabilityProcess(task[1].action, content[1]) IN
        IF o = "request"
        THEN /\ pc' = "inferring"
             /\ requests' = requests + 1
             /\ UNCHANGED <<task, raised, procOutcome, error_detail, payload, posts,
                            sendSite, inflight>>
        ELSE /\ raised' = <<[class |-> "ValueError",
                             message |-> CapabilityMessage(task[1].action, o)]>>
             /\ procOutcome' = "raised"
             /\ task' = task
             /\ HandleAtDispatch(CapabilityMessage(task[1].action, o), TRUE)
             /\ UNCHANGED requests
    /\ UNCHANGED <<is_running, response, sleeps, sleepSite, invoked, postOutcome, stopped,
                   cancelled, cancelledAt, proc_result, server_key, previous, content,
                   files,
                   early_stop>>

\* the inference service answers and process() returns its result
InferenceReturns ==
    /\ pc = "inferring"
    /\ \E res \in InferenceResults(task[1].action) : Returns(res)
    /\ procOutcome' = "returned"
    /\ UNCHANGED <<is_running, response, sleeps, sleepSite, invoked, raised,
                   error_detail, postOutcome, stopped, cancelled, cancelledAt,
                   server_key, previous, content, requests, files,
                   early_stop>>

\* the request fails or its answer is unusable: process() raises a ValueError
InferenceRaises ==
    /\ pc = "inferring"
    /\ raised' = <<[class |-> "ValueError", message |-> "Erro na comunicacao com Ollama"]>>
    /\ procOutcome' = "raised"
    /\ task' = task
    /\ HandleAtDispatch("Erro na comunicacao com Ollama", TRUE)
    /\ UNCHANGED <<is_running, response, sleeps, sleepSite, invoked, postOutcome, stopped,
                   cancelled, cancelledAt, proc_result, server_key, previous, content,
                   requests, files,
                   early_stop>>

(* AudioProcessor.process, lines 45-64, which never suspends: validations,  *)
(* the temporary file "input", _transcribe_with_whisper, and the finally    *)
(* clause of line 60 that removes "input".                                  *)
CapTranscribe ==
    /\ pc = "processing"
    /\ content # <<>> /\ content[1].kind = "audio"
    /\ \E conv \in ConversionOutcomes, whisper \in {"text", "raises"} :
        LET w == _transcribe_with_whisper(content[1].ext, conv, whisper) IN
        IF ~content[1].valid
        THEN /\ raised' = <<[class |-> "KeyError", message |-> "'fileSize'"]>>
             /\ procOutcome' = "raised"
             /\ task' = task
             /\ HandleAtDispatch("'fileSize'", TRUE)
             /\ UNCHANGED <<files, proc_result>>
        ELSE /\ files' = ((files \cup {"input"} \cup w.created) \ w.removed) \ {"input"}
             /\ IF w.raised
                THEN /\ raised' = <<[class |-> "ValueError",
                                     message |-> "Erro na transcricao"]>>
                     /\ procOutcome' = "raised"
                     /\ task' = task
                     /\ HandleAtDispatch("Erro na transcricao", TRUE)
                     /\ UNCHANGED proc_result
                ELSE /\ procOutcome' = "returned"
                     /\ \E res \in AudioResults : Returns(res)
                     /\ UNCHANGED <<raised, error_detail>>
    /\ UNCHANGED <<is_running, response, sleeps, sleepSite, invoked, postOutcome, stopped,
                   cancelled, cancelledAt, server_key, previous, content, requests,
                   early_stop>>

\* the loop suspended in process() of a task it has just dispatched
CapInit ==
    /\ pc = "processing"
    /\ is_running = TRUE
    /\ \E r \in PollResponses :
        /\ _polling(r) = "process"
        /\ r.task[1].action \in {EMBEDDING, KNOWLEDGE, PROMPT, TRANSCRIBE}
        /\ response = <<r>>
        /\ task = FetchedTask(r)
        /\ content \in { <<c>> : c \in ContentsOf(r.task[1].action) }
    /\ sleeps = <<>>
    /\ sleepSite = 0
    /\ invoked = 1
    /\ procOutcome = "none"
    /\ raised = <<>>
    /\ error_detail = <<>>
    /\ payload = <<>>
    /\ sendSite = "none"
    /\ posts = <<>>
    /\ postOutcome = <<>>
    /\ inflight = 1
    /\ stopped = FALSE
    /\ cancelled = FALSE
    /\ cancelledAt = <<>>
    /\ proc_result = <<>>
    /\ server_key = <<ValidKey>>
    /\ previous = <<>>
    /\ requests = 0
    /\ files = {}
    /\ early_stop = FALSE

CapNext ==
    \/ CapValidate
    \/ InferenceReturns
    \/ InferenceRaises
    \/ CapTranscribe
    \/ PostDone

\* one dispatched task followed through its capability and its submission
CapSpec == CapInit /\ [][CapNext]_vars

(* Every await of the loop ends: the GET and the POST have timeouts, a      *)
(* sleep elapses, a capability returns or raises.  stop() and cancellation  *)
(* are the environment's and may never happen.                              *)
FairSpec == Spec /\ WF_vars(LoopStep)

----------------------------------------------------------------------------
(* Classes of poll answers                                                  *)

\* a 2xx answer whose JSON body has success true and data null
NoWork(r) ==
    /\ r.status = 200 /\ r.json_ok
    /\ "success" \in r.keys /\ r.success
    /\ "data" \in r.keys /\ r.data = "null"

\* a transport-level failure other than 401, or a 2xx body with success false
PollError(r) ==
    \/ r.status \in ErrorStatuses \ {401}
    \/ r.status = 200 /\ r.json_ok /\ "success" \in r.keys /\ ~r.success

\* every sleep begun in this iteration lasted d seconds
OnlySleeps(d) == \A i \in 1..Len(sleeps) : sleeps[i] = d

----------------------------------------------------------------------------
(* C1: after a poll answered 2xx with success true and data null, the loop  *)
(* sleeps exactly once before the next fetch, for polling_interval_seconds, *)
(* and never for retry_delay_seconds in that iteration.                     *)
C1_NoWorkSleepsPollingInterval ==
    (response # <<>> /\ NoWork(response[1])) =>
        /\ Len(sleeps) = 1
        /\ OnlySleeps(polling_interval_seconds)
        /\ retry_delay_seconds # polling_interval_seconds
        /\ pc \in {"sleeping", "check", "returned"}
        /\ posts = <<>>

C1_Witness ==
    /\ pc = "check" /\ is_running
    /\ response # <<>> /\ NoWork(response[1])
    /\ sleeps = <<polling_interval_seconds>>

(* C2: after a poll that fails at transport level (connection error, 5xx,   *)
(* 404, any non-401 status, also a 500 without 'message') or is answered    *)
(* 2xx with success false, the loop sleeps exactly once before the next     *)
(* fetch, for retry_delay_seconds.                                          *)
C2_PollErrorSleepsRetryDelay ==
    (response # <<>> /\ PollError(response[1])) =>
        /\ Len(sleeps) = 1
        /\ OnlySleeps(retry_delay_seconds)
        /\ retry_delay_seconds # polling_interval_seconds
        /\ pc \in {"sleeping", "check", "returned"}
        /\ posts = <<>>

C2_Witness ==
    /\ pc = "check" /\ is_running
    /\ response # <<>>
    /\ response[1].status = 500 /\ ~response[1].err_message
    /\ sleeps = <<retry_delay_seconds>>

(* C3: after a fetch answered 401 the loop does not sleep in that iteration *)
(* and is back at the loop condition at once: the next fetch follows unless *)
(* the loop was stopped.                                                    *)
C3_UnauthorizedNoSleep ==
    (response # <<>> /\ response[1].status = 401) =>
        /\ sleeps = <<>>
        /\ pc \in {"check", "returned"}
        /\ (pc = "returned" => stopped /\ ~cancelled)
        /\ (pc = "check" /\ is_running => ENABLED IssueFetch)

C3_Witness ==
    /\ pc = "check" /\ is_running
    /\ response # <<>> /\ response[1].status = 401
    /\ sleeps = <<>>

----------------------------------------------------------------------------
(* Tasks at dispatch                                                        *)

\* the fetched task carries the two keys _process_task reads
Dispatchable == task # <<>> /\ task[1].task_id # Absent /\ task[1].action # Absent

\* ... and its action is not a key of the registry
UnknownActionTask == Dispatchable /\ task[1].action \notin DOMAIN processors

\* ... and its action is a key of the registry
RegisteredActionTask == Dispatchable /\ task[1].action \in DOMAIN processors

\* the keys _send_response puts in a payload
EnvelopeKeys ==
    {"task_id", "type", "server_id", "conversation_id", "client_id", "channel_id",
     "message_id", "metadata", "success", "data"}

\* the envelope p says something about the error: in a key of its own, in
\* its metadata, or in its data
CarriesErrorDetail(p) ==
    \/ DOMAIN p \ EnvelopeKeys # {}
    \/ /\ p.metadata.kind = "map"
       /\ DOMAIN p.metadata.map \cap {"error", "code", "message", "details"} # {}
    \/ p.data # NoneValue

(* C4: an error a registered capability raises in process() does not leave *)
(* _process_task (the next await is the POST of the failure envelope, no    *)
(* sleep of an outer handler); start() does not return and is_running stays *)
(* true unless stop() or a cancellation intervenes; and a further fetch is  *)
(* eventually issued.                                                       *)
C4_CapabilityErrorContained ==
    /\ [][(pc = "processing" /\ procOutcome' = "raised") =>
            (pc' = "posting" /\ is_running' = is_running /\ sleeps' = sleeps)]_vars
    /\ []((procOutcome = "raised" /\ ~stopped /\ ~cancelled) =>
            (is_running /\ pc # "returned"))
    /\ ((procOutcome = "raised") ~> (pc = "fetching" \/ stopped \/ cancelled))

C4_Witness ==
    /\ procOutcome = "raised" /\ raised # <<>> /\ raised[1].class = "KeyError"
    /\ pc = "posting" /\ is_running

(* C5: for a fetched task whose action is not in the registry, a POST is   *)
(* issued whose envelope has success=false and carries a populated error    *)
(* detail, and the loop goes on polling.                                    *)
C5_UnknownActionEnvelopeCarriesError ==
    UnknownActionTask =>
        /\ Len(posts) = 1
        /\ posts[1].success = FALSE
        /\ CarriesErrorDetail(posts[1])
        /\ pc \in {"posting", "check", "returned"}

(* C6 as stated: the failure record of a task with an unknown action has a *)
(* kind of its own, distinct from the kind used when a capability raises,   *)
(* and no capability is invoked.                                            *)
C6_UnknownActionHasOwnKind ==
    UnknownActionTask =>
        /\ error_detail # <<>>
        /\ error_detail[1].code # PROCESSING_ERROR
        /\ invoked = 0

(* C6 amended: the failure record of a task with an unknown action has the *)
(* same code PROCESSING_ERROR as when a capability raises and differs only  *)
(* by its message; the loop goes directly to the submission of an envelope  *)
(* with success=false and no capability is invoked.                         *)
C6_UnknownActionIsProcessingError ==
    UnknownActionTask =>
        /\ error_detail # <<>>
        /\ error_detail[1].code = PROCESSING_ERROR
        /\ error_detail[1].message = NotFoundMessage(task[1].action)
        /\ invoked = 0 /\ procOutcome = "none"
        /\ sleeps = <<>>
        /\ Len(posts) = 1
        /\ posts[1].success = FALSE /\ posts[1].data = NoneValue
        /\ posts[1].type = task[1].action

C6_Witness ==
    /\ UnknownActionTask /\ pc = "posting"
    /\ error_detail # <<>> /\ error_detail[1].code = PROCESSING_ERROR
    /\ invoked = 0

(* C7: when a registered capability raises, exactly one envelope is         *)
(* submitted for the task, with success=false and data=null, and the        *)
(* failure record has code PROCESSING_ERROR, the task's action and the      *)
(* raised message.                                                          *)
C7_RaisedTaskReportedOnce ==
    procOutcome = "raised" =>
        /\ RegisteredActionTask
        /\ Len(posts) = 1
        /\ posts[1].task_id = task[1].task_id
        /\ posts[1].success = FALSE /\ posts[1].data = NoneValue
        /\ error_detail # <<>>
        /\ error_detail[1].code = PROCESSING_ERROR
        /\ error_detail[1].message = raised[1].message
        /\ error_detail[1].details = "Erro no processamento de " \o task[1].action

C7_Witness ==
    /\ procOutcome = "raised" /\ pc = "check"
    /\ Len(posts) = 1 /\ posts[1].success = FALSE
    /\ postOutcome # <<>>

\* the first try block of _send_response raised for the task of this
\* iteration: update() on a metadata value that is present and not a dict
\* (lines 193, 219)
EnvelopeBuildRaised ==
    /\ procOutcome = "returned"
    /\ task[1].action \in {EMBEDDING, KNOWLEDGE}
    /\ task[1].metadata.kind \notin {"absent", "map"}

(* C8 as stated: every task returned by a fetch has a submission POST       *)
(* initiated after its processing and before the next fetch is issued.      *)
C8_EveryTaskSubmittedBeforeNextFetch ==
    (pc = "check" /\ Dispatchable) => (Len(posts) >= 1 /\ inflight = 0)

(* C8 amended: a submission POST for task N, when one is issued, is         *)
(* initiated after N's processing has completed and before the next fetch,  *)
(* and no fetch is issued while a fetched task is still being processed or  *)
(* submitted; a POST is issued for every task except one whose envelope     *)
(* cannot be built (a successful embedding or knowledge task whose metadata *)
(* is present and not a map, such as null), which goes unreported.          *)
C8_SubmissionOrdered ==
    /\ (pc = "fetching" => (inflight = 0 /\ posts = <<>> /\ task = <<>>))
    /\ (pc = "processing" => (posts = <<>> /\ procOutcome = "none"))
    /\ (posts # <<>> =>
            /\ Dispatchable
            /\ Len(posts) = 1
            /\ posts[1].task_id = task[1].task_id
            /\ (invoked = 1 => procOutcome # "none"))
    /\ ((pc = "check" /\ Dispatchable) =>
            /\ inflight = 0
            /\ (posts = <<>> <=> EnvelopeBuildRaised))

C8_Witness ==
    /\ pc = "check" /\ is_running /\ Dispatchable
    /\ procOutcome = "returned" /\ Len(posts) = 1 /\ posts[1].success
    /\ postOutcome # <<>>

(* C9: at most one task is in flight in every reachable state, and          *)
(* process() is invoked at most once per iteration, only while the task of  *)
(* that iteration is the one in flight.                                     *)
C9_AtMostOneTaskInFlight ==
    /\ inflight \in {0, 1}
    /\ invoked \in {0, 1}
    /\ (inflight = 1 <=> pc \in {"processing", "posting"})
    /\ (pc = "processing" => (invoked = 1 /\ RegisteredActionTask))
    /\ (invoked = 1 => RegisteredActionTask)

C9_Witness ==
    /\ pc = "processing" /\ inflight = 1 /\ invoked = 1

(* C10: whatever the outcome of the submission POST (200, 401, another      *)
(* status, a transport exception), at most one POST is issued for the task, *)
(* nothing is raised to the loop (no handler sleeps) and the loop is back   *)
(* at its condition, from where the next fetch is issued.                   *)
C10_SubmissionBestEffort ==
    /\ Len(posts) <= 1
    /\ (postOutcome # <<>> =>
            /\ Len(posts) = 1
            /\ sleeps = <<>>
            /\ pc \in {"check", "returned"}
            /\ (pc = "returned" => (stopped /\ ~cancelled))
            /\ ((pc = "check" /\ is_running) => ENABLED IssueFetch))

C10_Witness ==
    /\ postOutcome = <<0>> /\ pc = "check" /\ is_running
    /\ Len(posts) = 1 /\ posts[1].success

----------------------------------------------------------------------------
(* C11: start() returns only after stop() was called or a cancellation was  *)
(* delivered.  Whatever the poll, the capability and the submission did,    *)
(* as long as neither happened the flag is_running stays true and start()   *)
(* has not returned; start() has no exit that raises.                       *)
C11_ReturnsOnlyOnStopOrCancel ==
    /\ (pc = "returned" => (stopped \/ cancelled))
    /\ ((pc \notin {"idle", "returned"} /\ ~stopped) => is_running)
    /\ ((pc = "check" /\ ~stopped) => ENABLED IssueFetch)

\* a capability failure followed by a failed submission, and the loop goes on
C11_Witness ==
    /\ pc = "check" /\ is_running /\ ~stopped /\ ~cancelled
    /\ procOutcome = "raised" /\ postOutcome = <<0>>

(* C12: once stop() has been called on the started loop, is_running stays   *)
(* false, no fetch is issued any more, and start() eventually returns       *)
(* (every await of the loop ends).                                          *)
C12_StopEndsLoop ==
    /\ []((stopped /\ pc # "idle") => ~is_running)
    /\ [][(stopped /\ pc # "idle") => pc' # "fetching"]_vars
    /\ ((stopped /\ pc # "idle") ~> (pc = "returned"))

\* stop() arrived during an iteration that fetched a task, and start() returned
C12_Witness ==
    /\ pc = "returned" /\ stopped /\ ~cancelled
    /\ Len(posts) = 1 /\ postOutcome # <<>>

(* C13: a CancelledError delivered during a sleep, whichever sleep it is,   *)
(* ends it: no other sleep begins, nothing more is fetched, and start() has *)
(* returned with is_running false.                                          *)
C13_CancelDuringSleepReturns ==
    (cancelledAt # <<>> /\ cancelledAt[1].pc = "sleeping") =>
        /\ cancelledAt[1].site \in {81, 116, 127, 132, 143}
        /\ pc = "returned"
        /\ ~is_running
        /\ Len(sleeps) = 1
        /\ sleepSite = 0
        /\ ~ENABLED IssueFetch

\* cancelled in the polling-interval sleep
C13_Witness ==
    /\ cancelledAt = <<[pc |-> "sleeping", site |-> 132]>>
    /\ sleeps = <<polling_interval_seconds>>
    /\ pc = "returned" /\ ~is_running

\* cancelled in a retry-delay sleep
C13_WitnessRetry ==
    /\ cancelledAt = <<[pc |-> "sleeping", site |-> 81]>>
    /\ sleeps = <<retry_delay_seconds>>
    /\ pc = "returned" /\ ~is_running

----------------------------------------------------------------------------
(* Envelopes against the task as it was fetched                             *)

\* the task of this iteration as the GET returned it, before any write
FetchedTaskData == response[1].task[1]

\* the keys update() adds for the embedding family
ExtraKeys == {"dimensions", "model", "tokens"}

\* process() returned for a task of the embedding family
EmbeddingFamilySuccess ==
    /\ procOutcome = "returned"
    /\ task[1].action \in {EMBEDDING, KNOWLEDGE}

ContextFields == {"server_id", "conversation_id", "client_id", "channel_id", "message_id"}

\* the task {task_id: t1, action: prompt, content: hello}
ExampleTask ==
    [task_id |-> "t1", action |-> PROMPT, metadata |-> MetaAbsent,
     server_id |-> Absent, conversation_id |-> Absent, client_id |-> Absent,
     channel_id |-> Absent, message_id |-> Absent]

\* {task_id: t1, type: prompt, success: true, data: "hi", metadata: {}} with
\* null context fields
ExampleEnvelope ==
    [task_id |-> "t1", type |-> PROMPT, success |-> TRUE,
     data |-> StrValue(<<104, 105>>), metadata |-> MetaMap(EmptyMap),
     server_id |-> None, conversation_id |-> None, client_id |-> None,
     channel_id |-> None, message_id |-> None]

(* C15: every envelope submitted, success or failure, has the task_id and   *)
(* (as type) the action of the fetched task and, for each of the five       *)
(* context fields, the task's value, null when the task lacks the field.    *)
(* For the task {t1, prompt} and a capability returning {response: "hi"}    *)
(* the envelope is exactly the example of the claim.                        *)
C15_EnvelopeEchoesTask ==
    /\ \A i \in 1..Len(posts) :
          /\ posts[i].task_id = FetchedTaskData.task_id
          /\ posts[i].type = FetchedTaskData.action
          /\ \A f \in ContextFields :
                posts[i][f] = IF FetchedTaskData[f] = Absent THEN None
                              ELSE FetchedTaskData[f]
    /\ ((/\ procOutcome = "returned"
         /\ FetchedTaskData = ExampleTask
         /\ proc_result = <<[response |-> <<104, 105>>]>>) => posts = <<ExampleEnvelope>>)

\* the example of the claim, submitted
C15_Witness ==
    /\ pc = "posting"
    /\ procOutcome = "returned"
    /\ FetchedTaskData = ExampleTask
    /\ proc_result = <<[response |-> <<104, 105>>]>>
    /\ posts = <<ExampleEnvelope>>

\* a failure envelope of a task that carries all its context fields
C15_WitnessFailure ==
    /\ Len(posts) = 1 /\ ~posts[1].success
    /\ posts[1].server_id = "s1" /\ posts[1].message_id = "m1"

(* C16 as stated: in every submitted envelope each key/value pair of the    *)
(* fetched task's metadata is present with the value it had on the task,    *)
(* and a task without a metadata key yields {} plus the extras.             *)
C16_InputMetadataPreserved ==
    \A i \in 1..Len(posts) :
        /\ FetchedTaskData.metadata.kind = "map" =>
              /\ posts[i].metadata.kind = "map"
              /\ \A k \in DOMAIN FetchedTaskData.metadata.map :
                    /\ k \in DOMAIN posts[i].metadata.map
                    /\ posts[i].metadata.map[k] = FetchedTaskData.metadata.map[k]
        /\ FetchedTaskData.metadata.kind = "absent" =>
              /\ posts[i].metadata.kind = "map"
              /\ DOMAIN posts[i].metadata.map \subseteq ExtraKeys

\* the key of the result dict that is the primary field of an action
PrimaryField(action) ==
    CASE action \in {EMBEDDING, KNOWLEDGE} -> "embedding"
      [] action = TRANSCRIBE -> "transcription"
      [] action = DESCRIBE -> "description"
      [] action = SUMMARIZE -> "summary"
      [] action = PROMPT -> "response"

C17_WitnessPrompt ==
    /\ procOutcome = "returned"
    /\ task[1].action = PROMPT
    /\ Len(posts) = 1 /\ posts[1].success
    /\ posts[1].data = StrValue(<<104, 105>>)

\* the credential is absent, empty, or made of whitespace only
CredentialMissing ==
    \/ server_key = <<>>
    \/ \A i \in 1..Len(server_key[1]) : server_key[1][i] \in Whitespace

(* C18: with a credential that is absent, empty or whitespace-only, main()  *)
(* returns before the client exists: start() is never entered, and no GET   *)
(* and no POST is ever issued.                                              *)
C18_NoCredentialNoLoop ==
    CredentialMissing =>
        /\ pc \in {"main", "aborted"}
        /\ ~is_running
        /\ response = <<>>
        /\ posts = <<>>
        /\ ~ENABLED Start

\* main() has returned on a credential made of a tab and a space
C18_Witness ==
    /\ pc = "aborted"
    /\ server_key = << <<9, 32>> >>

\* a 2xx answer that is not JSON, or whose body lacks the success or the data
\* key, or whose task lacks action or task_id
Malformed(r) ==
    /\ r.status = 200
    /\ \/ ~r.json_ok
       \/ "success" \notin r.keys
       \/ "data" \notin r.keys
       \/ /\ r.success /\ r.data = "task"
          /\ (r.task[1].action = Absent \/ r.task[1].task_id = Absent)

(* C19: after a malformed 2xx poll answer the loop neither ends nor raises: *)
(* no capability is invoked, nothing is submitted, the loop sleeps exactly  *)
(* once, for retry_delay_seconds, and is then ready to poll again.          *)
C19_MalformedAnswerIsolated ==
    (response # <<>> /\ Malformed(response[1])) =>
        /\ sleeps = <<retry_delay_seconds>>
        /\ invoked = 0
        /\ posts = <<>>
        /\ pc \in {"sleeping", "check", "returned"}
        /\ (pc = "returned" => (stopped \/ cancelled))
        /\ ((pc = "check" /\ is_running) => ENABLED IssueFetch)

\* a task without task_id was answered, the loop slept and is about to poll
C19_Witness ==
    /\ pc = "check" /\ is_running
    /\ response # <<>> /\ response[1].data = "task"
    /\ response[1].success /\ "data" \in response[1].keys
    /\ response[1].task[1].task_id = Absent
    /\ response[1].task[1].action = EMBEDDING
    /\ sleeps = <<retry_delay_seconds>>

\* a body that is not JSON was answered, the loop slept and is about to poll
C19_WitnessNotJson ==
    /\ pc = "check" /\ is_running
    /\ response # <<>> /\ response[1].status = 200 /\ ~response[1].json_ok
    /\ sleeps = <<retry_delay_seconds>>

\* the GET in flight follows an iteration whose GET was answered 401
FetchAfterUnauthorized ==
    pc = "fetching" /\ previous # <<>> /\ previous[1].status = 401

(* C20 as stated: after a 401 the loop keeps polling on a cadence: between  *)
(* the fetch answered 401 and the next fetch there is a delay.              *)
C20_UnauthorizedKeepsCadence ==
    FetchAfterUnauthorized => previous[1].sleeps # <<>>

(* C20, amended: a 401 does not end the loop (it is ready to fetch again    *)
(* unless stop() was called), and the fetch that follows a 401 is issued    *)
(* with no sleep in between: under a server that keeps answering 401 the    *)
(* fetches are back-to-back.                                                *)
C20_UnauthorizedRetriesAtOnce ==
    /\ FetchAfterUnauthorized => previous[1].sleeps = <<>>
    /\ (response # <<>> /\ response[1].status = 401 /\ ~stopped) =>
            (pc = "check" /\ is_running /\ ENABLED IssueFetch)

\* two fetches in a row answered 401, with no sleep after either
C20_Witness ==
    /\ pc = "check" /\ is_running
    /\ previous = <<[status |-> 401, sleeps |-> <<>>]>>
    /\ response # <<>> /\ response[1].status = 401
    /\ sleeps = <<>>

(* C21 as stated: from the fetch that returned it to the end of its         *)
(* submission the task record, its metadata map included, is what the       *)
(* fetch returned.                                                          *)
C21_TaskImmutable ==
    task # <<>> => task[1] = FetchedTaskData

(* C22: the body of every POST carries the full value: the success          *)
(* envelope has as data the whole primary field of the capability's result, *)
(* however long, the failure envelope has null; the cut made for the        *)
(* preview is not in it.                                                    *)
C22_PreviewLeavesPayload ==
    /\ \A i \in 1..Len(posts) :
          /\ posts[i].success =>
                posts[i].data.v = proc_result[1][PrimaryField(posts[i].type)]
          /\ ~posts[i].success => posts[i].data = NoneValue
    /\ (pc = "posting" => payload = <<posts[Len(posts)]>>)

\* a transcription of 101 characters is posted whole while its preview has 100
C22_Witness ==
    /\ pc = "posting"
    /\ Len(posts) = 1
    /\ posts[1].data = StrValue(LongText)
    /\ Len(PreviewStep(posts[1]).result_to_log.data.v) = PreviewStrLimit

\* a vector of 11 elements is posted whole while its preview has 10
C22_WitnessList ==
    /\ pc = "posting"
    /\ Len(posts) = 1
    /\ posts[1].data = ListValue(LongVector)
    /\ Len(PreviewStep(posts[1]).result_to_log.data.v) = PreviewListLimit

(* C23: once the POST of a task has ended, accepted or not, the loop is at  *)
(* its condition having slept nothing in that iteration, and the next fetch *)
(* follows.  A sleep happens only after a poll answer without work, in      *)
(* error, or malformed, never after a capability ran or an envelope was     *)
(* sent, and no iteration sleeps twice.                                     *)
C23_NoSleepAfterSubmission ==
    /\ Len(sleeps) <= 1
    /\ (postOutcome # <<>> =>
            /\ sleeps = <<>>
            /\ pc \in {"check", "returned"}
            /\ ((pc = "check" /\ is_running) => ENABLED IssueFetch))
    /\ (sleeps # <<>> =>
            /\ invoked = 0
            /\ posts = <<>>
            /\ (NoWork(response[1]) \/ PollError(response[1]) \/ Malformed(response[1])))

\* two iterations in a row that handled a task, with no sleep after either
C23_Witness ==
    /\ pc = "check" /\ is_running
    /\ postOutcome = <<200>>
    /\ sleeps = <<>>
    /\ previous = <<[status |-> 200, sleeps |-> <<>>]>>

----------------------------------------------------------------------------
(* Claims about the capabilities                                            *)

\* process() has run on a text task that has its text
TextTaskProcessed ==
    /\ pc # "processing"
    /\ content # <<>> /\ content[1].kind = "text" /\ content[1].present

\* the length the limit applies to: for prompt, content plus context contents
TotalLength ==
    content[1].len +
        (IF task[1].action = PROMPT THEN SumSeq(content[1].context) ELSE 0)

\* process() raised the error of the length test
RejectedAsTooLong ==
    raised # <<>> /\ raised[1].message \in {"Texto muito longo", "Prompt muito longo"}

(* C24: an embedding, knowledge or prompt task whose text is longer than    *)
(* max_text_length is rejected with no request made to the inference        *)
(* service and is reported by one envelope with success false; a text of    *)
(* exactly max_text_length is not rejected by the length test.              *)
C24_TooLongRejectedBeforeRequest ==
    TextTaskProcessed =>
        /\ TotalLength > max_text_length =>
              /\ RejectedAsTooLong
              /\ requests = 0
              /\ Len(posts) = 1 /\ ~posts[1].success
        /\ TotalLength <= max_text_length => ~RejectedAsTooLong
        /\ (TotalLength <= max_text_length /\ task[1].action # PROMPT) => requests = 1

\* a prompt whose content has the limit's length and whose context adds one
C24_Witness ==
    /\ TextTaskProcessed
    /\ task[1].action = PROMPT
    /\ content[1].len = max_text_length /\ content[1].context = <<1>>
    /\ RejectedAsTooLong
    /\ requests = 0
    /\ Len(posts) = 1 /\ ~posts[1].success

\* an embedding text of exactly the limit goes to the inference service
C24_WitnessAtLimit ==
    /\ TextTaskProcessed
    /\ task[1].action = EMBEDDING
    /\ content[1].len = max_text_length
    /\ pc = "inferring" /\ requests = 1

(* C25 as stated: for a prompt task whose text is within the limit the      *)
(* inference service is asked, and unless that request fails process()      *)
(* returns and the envelope submitted has success true and the model's      *)
(* answer as data.                                                          *)
C25_PromptWithinLimitAnswered ==
    (TextTaskProcessed /\ task[1].action = PROMPT /\ TotalLength <= max_text_length) =>
        /\ requests = 1
        /\ (raised # <<>> => raised[1].message = "Erro na comunicacao com Ollama")
        /\ (procOutcome = "returned" =>
                /\ Len(posts) = 1 /\ posts[1].success
                /\ posts[1].data = StrValue(proc_result[1].response))

(* C26 as stated: once process() of an audio task is over, with a           *)
(* transcription or with an error, no WAV file made by the MP3 conversion   *)
(* exists any more.                                                         *)
C26_NoConvertedWavOutlives ==
    pc # "processing" => "converted.wav" \notin files

----------------------------------------------------------------------------
(* C27: start() sets is_running on entry whatever happened before: after a  *)
(* stop() that came before start() was entered the loop runs as if it had   *)
(* not been called, polling until a later stop() or a cancellation.         *)
C27_EarlyStopOverwritten ==
    (early_stop /\ pc # "idle") =>
        /\ (~stopped /\ pc # "returned") => is_running
        /\ (pc = "returned" => (stopped \/ cancelled))
        /\ ((pc = "check" /\ ~stopped) => ENABLED IssueFetch)

\* stopped before it started, the loop is in its second fetch
C27_Witness ==
    /\ early_stop /\ ~stopped /\ ~cancelled
    /\ pc = "fetching" /\ is_running
    /\ previous # <<>>

(* C28: a CancelledError delivered while process() of a fetched task is     *)
(* suspended is not taken by the handler of _process_task: no error detail  *)
(* is built, no envelope of either kind is sent for the task, the loop      *)
(* ends and start() has returned.                                           *)
C28_CancelDuringProcessingUnreported ==
    (cancelledAt # <<>> /\ cancelledAt[1].pc = "processing") =>
        /\ posts = <<>>
        /\ payload = <<>>
        /\ error_detail = <<>>
        /\ postOutcome = <<>>
        /\ pc = "returned"
        /\ ~is_running
        /\ ~ENABLED IssueFetch

\* cancelled in the request of an embedding task
C28_Witness ==
    /\ cancelledAt # <<>> /\ cancelledAt[1].pc = "processing"
    /\ task # <<>> /\ task[1].action = EMBEDDING /\ invoked = 1
    /\ pc = "returned" /\ posts = <<>>

(* C29: when building the envelope raises (a successful embedding or        *)
(* knowledge task whose metadata is null), _send_response returns with no   *)
(* POST and raises nothing: no envelope at all is sent for the task, the    *)
(* handler of _process_task is not entered, and the loop is back at its     *)
(* condition without having slept.                                          *)
C29_BuildFailureUnreported ==
    EnvelopeBuildRaised =>
        /\ posts = <<>>
        /\ payload = <<>>
        /\ postOutcome = <<>>
        /\ error_detail = <<>>
        /\ sleeps = <<>>
        /\ inflight = 0
        /\ pc \in {"check", "returned"}
        /\ (pc = "returned" => stopped)
        /\ ((pc = "check" /\ is_running) => ENABLED IssueFetch)

\* a knowledge task with null metadata was processed and nothing was sent
C29_Witness ==
    /\ EnvelopeBuildRaised
    /\ task[1].action = KNOWLEDGE /\ task[1].metadata = MetaNull
    /\ proc_result # <<>>
    /\ pc = "check" /\ is_running
    /\ posts = <<>> /\ sleeps = <<>>

\* stop() has been called in this run of start() and no start() came after it
StopInForce == stopped /\ ~is_running

C30_WitnessSleep ==
    /\ stopped /\ ~cancelled /\ ~is_running
    /\ pc = "sleeping" /\ sleepSite = 132
    /\ ENABLED SleepDone

====
